---- MODULE Spec2Model ----
(***************************************************************************)
(* Video avatar rendering: VideoAvatarRenderer (one output texture per     *)
(* participant, fed by a camera stream, a mask image or a placeholder) and *)
(* VideoAvatarManager (the registry of renderers of a scene).              *)
(*                                                                         *)
(* Every operation of the two classes is an operator from a world (the     *)
(* value of all program variables) to the world after the call; an action  *)
(* applies one operation to the current world.                             *)
(***************************************************************************)
EXTENDS Integers, Sequences, FiniteSets, TLC

VARIABLES
    instances,      \* texture key -> sequence of the renderers constructed under it
    textures,       \* scene.textures: texture key -> canvas texture
    renderers,      \* VideoAvatarManager.renderers: spaceUserId -> renderer
    localRenderer,  \* VideoAvatarManager.localRenderer
    destroyed,      \* VideoAvatarManager.destroyed
    ret,            \* the renderer returned by the last call (NoRef: none)
    threw,          \* the last call ended with an exception
    clock,          \* the last timestamp the scene passed to update
    lastOp          \* the name of the last call or callback

vars == <<instances, textures, renderers, localRenderer, destroyed, ret, threw, clock, lastOp>>

-----------------------------------------------------------------------------
(* Program constants *)

frameInterval == 66
SPRITE_WIDTH == 32
SPRITE_HEIGHT == 32
MAX_CONCURRENT_VIDEO == 8

LocalKey == "local_video_avatar"
RemoteKey(spaceUserId) == "remote_video_" \o ToString(spaceUserId)

-----------------------------------------------------------------------------
(* Bounds of the model *)

MaxLoads == 2        \* image loads one renderer starts (Spec)
MaxTime == 66        \* largest timestamp of Spec and SpecReg
TickMaxTime == 142   \* largest timestamp of SpecTick
RegMaxInst == 3      \* renderers constructed in SpecReg
CapUsers == 8        \* remote participants of SpecCap
SpanMaxTime == 280   \* largest timestamp of SpecSpan
MaxDim == 16         \* largest width and height of a video or an image (SpecCrop, SpecFit)

-----------------------------------------------------------------------------
(* Values *)

NoRef == <<"", 0>>                 \* null / undefined renderer reference
NoStream == -1                     \* stream === undefined
NoUrl == ""                        \* imageUrl null (or empty: both are falsy)
Urls == {"a.svg", "b.svg"}
SpaceUserIds == {1, 2}             \* the remote participants of SpecReg
StartTimes == 0..9                 \* the first timestamp of the scene in SpecSpan
Streams == {NoStream, 0, 1}        \* a MediaStream is its number of video tracks
VideoSizes == {<<16, 9>>}          \* videoWidth, videoHeight once metadata is known
CropSizes == (1..MaxDim) \X (1..MaxDim)   \* the same, in SpecCrop

\* the width and height of the image a url serves (img.width, img.height once loaded)
SizeUrl(size) == ToString(size[1]) \o "x" \o ToString(size[2]) \o ".svg"
FitSizes == (1..MaxDim) \X (1..MaxDim)
FitUrls == {SizeUrl(size) : size \in FitSizes}
ImageSize(url) ==
    IF url = "a.svg" THEN <<9, 16>>
    ELSE IF url = "b.svg" THEN <<16, 9>>
    ELSE CHOOSE size \in FitSizes : SizeUrl(size) = url

\* Rectangles are records of rationals over one denominator: the coordinate x is
\* x / den, and so on; the divisions of the code are exact in them.
NoRect == [x |-> 0, y |-> 0, w |-> 0, h |-> 0, den |-> 1]

\* a crop rectangle anchored at the origin of the source
CropRectFromOrigin(videoWidth, videoHeight) ==
    LET den == 2 * SPRITE_WIDTH * SPRITE_HEIGHT
    IN IF videoWidth * SPRITE_HEIGHT > videoHeight * SPRITE_WIDTH
       THEN [x |-> 0, y |-> 0, w |-> 2 * videoHeight * SPRITE_WIDTH * SPRITE_WIDTH,
             h |-> videoHeight * den, den |-> den]
       ELSE [x |-> 0, y |-> 0, w |-> videoWidth * den,
             h |-> 2 * videoWidth * SPRITE_HEIGHT * SPRITE_HEIGHT, den |-> den]

\* sx, sy, sw, sh of drawVideoFrame, with targetAspect = SPRITE_WIDTH / SPRITE_HEIGHT:
\* videoAspect > targetAspect: sw = videoHeight * targetAspect, sx = (videoWidth - sw) / 2
\* otherwise: sh = videoWidth / targetAspect, sy = (videoHeight - sh) / 2
CropRect(videoWidth, videoHeight) ==
    LET den == 2 * SPRITE_WIDTH * SPRITE_HEIGHT
    IN IF videoWidth * SPRITE_HEIGHT > videoHeight * SPRITE_WIDTH
       THEN LET sw == 2 * videoHeight * SPRITE_WIDTH * SPRITE_WIDTH
            IN [x |-> (videoWidth * den - sw) \div 2, y |-> 0, w |-> sw,
                h |-> videoHeight * den, den |-> den]
       ELSE LET sh == 2 * videoWidth * SPRITE_HEIGHT * SPRITE_HEIGHT
            IN [x |-> 0, y |-> (videoHeight * den - sh) \div 2, w |-> videoWidth * den,
                h |-> sh, den |-> den]

\* a mask stretched over the whole destination
FitRectStretched(width, height) ==
    LET den == 2 * width * height
    IN [x |-> 0, y |-> 0, w |-> SPRITE_WIDTH * den, h |-> SPRITE_HEIGHT * den, den |-> den]

\* dx, dy, dw, dh of drawMaskToCanvas for an image of width x height:
\* imgAspect > targetAspect: dh = SPRITE_WIDTH / imgAspect, dy = (SPRITE_HEIGHT - dh) / 2
\* otherwise: dw = SPRITE_HEIGHT * imgAspect, dx = (SPRITE_WIDTH - dw) / 2
FitRect(width, height) ==
    LET den == 2 * width * height
    IN IF width * SPRITE_HEIGHT > height * SPRITE_WIDTH
       THEN LET dh == 2 * SPRITE_WIDTH * height * height
            IN [x |-> 0, y |-> (SPRITE_HEIGHT * den - dh) \div 2,
                w |-> SPRITE_WIDTH * den, h |-> dh, den |-> den]
       ELSE LET dw == 2 * SPRITE_HEIGHT * width * width
            IN [x |-> (SPRITE_WIDTH * den - dw) \div 2, y |-> 0,
                w |-> dw, h |-> SPRITE_HEIGHT * den, den |-> den]

\* The content of a canvas: what was drawn last (kind), the fill under it, the image
\* drawn and the rectangle of the drawImage call (the source rectangle of a video
\* frame, the destination rectangle of a mask image)
Blank == [kind |-> "blank", fill |-> "", img |-> 0, url |-> "", rect |-> NoRect]
Placeholder == [kind |-> "placeholder", fill |-> "#444444", img |-> 0, url |-> "",
                rect |-> NoRect]
MaskPixels(img, url) ==
    [kind |-> "mask", fill |-> "#333333", img |-> img, url |-> url,
     rect |-> FitRect(ImageSize(url)[1], ImageSize(url)[2])]
VideoPixels(videoWidth, videoHeight) ==
    [kind |-> "video", fill |-> "", img |-> 0, url |-> "",
     rect |-> CropRect(videoWidth, videoHeight)]

World == [instances |-> instances, textures |-> textures, renderers |-> renderers,
          localRenderer |-> localRenderer, destroyed |-> destroyed,
          ret |-> NoRef, threw |-> FALSE]

Refs(W) == UNION {{<<k, g>> : g \in 1..Len(W.instances[k])} : k \in DOMAIN W.instances}

Inst(W, r) == W.instances[r[1]][r[2]]

SetInst(W, r, rec) == [W EXCEPT !.instances[r[1]][r[2]] = rec]

-----------------------------------------------------------------------------
(* VideoAvatarRenderer *)

refreshTexture(W, r) ==
    LET i == Inst(W, r) IN
    IF i.destroyed THEN W
    ELSE IF i.textureKey \in DOMAIN W.textures
            /\ W.textures[i.textureKey].obj = i.canvasTexture
         THEN [W EXCEPT !.textures[i.textureKey].pixels = i.canvas]
         ELSE W

drawPlaceholder(W, r) ==
    refreshTexture(SetInst(W, r, [Inst(W, r) EXCEPT !.canvas = Placeholder]), r)

drawMaskToCanvas(W, r) ==
    LET i == Inst(W, r) IN
    IF i.currentMaskImage = 0 THEN drawPlaceholder(W, r)
    ELSE refreshTexture(
            SetInst(W, r, [i EXCEPT !.canvas =
                MaskPixels(i.currentMaskImage, i.loads[i.currentMaskImage].url)]), r)

drawVideoFrame(W, r) ==
    LET i == Inst(W, r)
    IN refreshTexture(
            SetInst(W, r, [i EXCEPT !.canvas = VideoPixels(i.videoWidth, i.videoHeight)]), r)

NewInstance(textureKey, gen) ==
    [textureKey |-> textureKey, canvasTexture |-> gen,
     lastFrameTime |-> 0, isActive |-> FALSE, currentMaskImage |-> 0,
     maskLoading |-> FALSE, destroyed |-> FALSE,
     srcObject |-> NoStream, videoWidth |-> 0, videoHeight |-> 0,
     canvas |-> Blank,
     loads |-> <<>>,           \* the Image objects created, with their load state
     videoDraws |-> <<>>,      \* timestamps of the drawVideoFrame calls
     lastStream |-> NoStream,  \* argument of the last setStream that passed the guard
     lastMask |-> 0,           \* Image of the last setMaskImage that passed the guard (0: null)
     textureDestroys |-> 0]    \* canvasTexture.destroy() calls

NextGen(W, textureKey) ==
    IF textureKey \in DOMAIN W.instances THEN Len(W.instances[textureKey]) + 1 ELSE 1

\* new VideoAvatarRenderer(scene, textureKey); createCanvas returns null, and the
\* constructor throws, when the key is taken
constructor(W, textureKey) ==
    IF textureKey \in DOMAIN W.textures THEN [W EXCEPT !.threw = TRUE]
    ELSE LET gen == NextGen(W, textureKey)
             old == IF textureKey \in DOMAIN W.instances
                    THEN W.instances[textureKey] ELSE <<>>
             W1 == [W EXCEPT
                     !.instances = (textureKey :> Append(old, NewInstance(textureKey, gen)))
                                   @@ W.instances,
                     !.textures = (textureKey :> [obj |-> gen, pixels |-> Blank])
                                  @@ W.textures]
         IN drawPlaceholder(W1, <<textureKey, gen>>)

Usable(stream) == stream # NoStream /\ stream > 0

\* setStream without the destroyed guard
setStreamUnguarded(W, r, stream) ==
    LET i == Inst(W, r) IN
    IF Usable(stream)
    THEN SetInst(W, r, [i EXCEPT !.srcObject = stream, !.videoWidth = 0,
                                 !.videoHeight = 0, !.isActive = TRUE])
    ELSE LET W1 == SetInst(W, r, [i EXCEPT !.srcObject = NoStream, !.videoWidth = 0,
                                           !.videoHeight = 0, !.isActive = FALSE])
         IN IF i.currentMaskImage # 0 THEN drawMaskToCanvas(W1, r)
            ELSE drawPlaceholder(W1, r)

\* setStream that leaves the redraw after a detach to the next tick
setStreamDeferred(W, r, stream) ==
    LET i == Inst(W, r) IN
    IF i.destroyed THEN W
    ELSE IF Usable(stream)
         THEN SetInst(W, r, [i EXCEPT !.srcObject = stream, !.videoWidth = 0,
                                      !.videoHeight = 0, !.isActive = TRUE])
         ELSE SetInst(W, r, [i EXCEPT !.srcObject = NoStream, !.videoWidth = 0,
                                      !.videoHeight = 0, !.isActive = FALSE])

setStream(W, r, stream) ==
    LET i == Inst(W, r) IN
    IF i.destroyed THEN W
    ELSE IF Usable(stream)
         THEN SetInst(W, r, [i EXCEPT !.srcObject = stream, !.videoWidth = 0,
                                      !.videoHeight = 0, !.isActive = TRUE])
         ELSE LET W1 == SetInst(W, r, [i EXCEPT !.srcObject = NoStream, !.videoWidth = 0,
                                                !.videoHeight = 0, !.isActive = FALSE])
              IN IF i.currentMaskImage # 0 THEN drawMaskToCanvas(W1, r)
                 ELSE drawPlaceholder(W1, r)

\* a playback-start failure that leaves video mode
playCatchDeactivate(W, r) == SetInst(W, r, [Inst(W, r) EXCEPT !.isActive = FALSE])

\* videoElement.play().catch: the rejection is logged, nothing else
playCatch(W, r) == W

setMaskImage(W, r, imageUrl) ==
    LET i == Inst(W, r) IN
    IF i.destroyed THEN W
    ELSE IF imageUrl = NoUrl
         THEN LET W1 == SetInst(W, r, [i EXCEPT !.currentMaskImage = 0])
              IN IF ~i.isActive THEN drawPlaceholder(W1, r) ELSE W1
         ELSE SetInst(W, r, [i EXCEPT !.maskLoading = TRUE,
                    !.loads = Append(@, [url |-> imageUrl, state |-> "pending"])])

\* an onload that draws the mask whatever the mode
onloadAlwaysDraws(W, r, img) ==
    LET i == Inst(W, r)
        W0 == SetInst(W, r, [i EXCEPT !.loads[img].state = "loaded"])
    IN IF i.destroyed THEN W0
       ELSE drawMaskToCanvas(
                SetInst(W0, r, [Inst(W0, r) EXCEPT !.currentMaskImage = img,
                                                   !.maskLoading = FALSE]), r)

\* img.onload of the img-th Image of the renderer
onload(W, r, img) ==
    LET i == Inst(W, r)
        W0 == SetInst(W, r, [i EXCEPT !.loads[img].state = "loaded"])
    IN IF i.destroyed THEN W0
       ELSE LET W1 == SetInst(W0, r, [Inst(W0, r) EXCEPT !.currentMaskImage = img,
                                                         !.maskLoading = FALSE])
            IN IF ~i.isActive THEN drawMaskToCanvas(W1, r) ELSE W1

\* img.onerror of the img-th Image of the renderer
onerror(W, r, img) ==
    LET i == Inst(W, r)
        W1 == SetInst(W, r, [i EXCEPT !.loads[img].state = "failed",
                                      !.maskLoading = FALSE])
    IN IF ~i.isActive THEN drawPlaceholder(W1, r) ELSE W1

\* no throttle: every tick redraws
ThrottledNever(time, lastFrameTime) == FALSE

\* the throttle without the time of the last frame
ThrottledSinceStart(time, lastFrameTime) == time < frameInterval

Throttled(time, lastFrameTime) == time - lastFrameTime < frameInterval

update(W, r, time) ==
    LET i == Inst(W, r) IN
    IF i.destroyed THEN W
    ELSE IF ~i.isActive THEN W
    ELSE IF Throttled(time, i.lastFrameTime) THEN W
    ELSE LET W1 == SetInst(W, r, [i EXCEPT !.lastFrameTime = time]) IN
         IF i.videoWidth = 0 \/ i.videoHeight = 0 THEN W1
         ELSE drawVideoFrame(
                SetInst(W1, r, [Inst(W1, r) EXCEPT !.videoDraws = Append(@, time)]), r)

getTextureKey(W, r) == Inst(W, r).textureKey

isVideoActive(W, r) == Inst(W, r).isActive

isMaskLoading(W, r) == Inst(W, r).maskLoading

\* a teardown with neither the destroyed guard nor the textures.exists check
destroyNaive(W, r) ==
    LET i == Inst(W, r)
        W1 == SetInst(W, r, [i EXCEPT !.destroyed = TRUE, !.srcObject = NoStream,
                                      !.videoWidth = 0, !.videoHeight = 0,
                                      !.isActive = FALSE, !.currentMaskImage = 0,
                                      !.textureDestroys = @ + 1])
    IN [W1 EXCEPT !.textures = [k \in DOMAIN W1.textures \ {i.textureKey}
                                  |-> W1.textures[k]]]

\* a teardown without the destroyed guard
destroyUnguarded(W, r) ==
    LET i == Inst(W, r)
        W1 == SetInst(W, r, [i EXCEPT !.destroyed = TRUE, !.srcObject = NoStream,
                                      !.videoWidth = 0, !.videoHeight = 0,
                                      !.isActive = FALSE, !.currentMaskImage = 0])
    IN IF i.textureKey \in DOMAIN W1.textures
       THEN [SetInst(W1, r, [Inst(W1, r) EXCEPT !.textureDestroys = @ + 1])
               EXCEPT !.textures = [k \in DOMAIN W1.textures \ {i.textureKey}
                                       |-> W1.textures[k]]]
       ELSE W1

destroy(W, r) ==
    LET i == Inst(W, r) IN
    IF i.destroyed THEN W
    ELSE LET W1 == SetInst(W, r, [i EXCEPT !.destroyed = TRUE, !.srcObject = NoStream,
                                           !.videoWidth = 0, !.videoHeight = 0,
                                           !.isActive = FALSE, !.currentMaskImage = 0])
         IN IF i.textureKey \in DOMAIN W1.textures
            THEN [SetInst(W1, r, [Inst(W1, r) EXCEPT !.textureDestroys = @ + 1])
                    EXCEPT !.textures = [k \in DOMAIN W1.textures \ {i.textureKey}
                                            |-> W1.textures[k]]]
            ELSE W1

\* the video element learns the dimensions of the attached stream
loadedmetadata(W, r, size) ==
    SetInst(W, r, [Inst(W, r) EXCEPT !.videoWidth = size[1], !.videoHeight = size[2]])

-----------------------------------------------------------------------------
(* VideoAvatarManager *)

createLocalRenderer(W) ==
    IF W.localRenderer # NoRef THEN [W EXCEPT !.ret = W.localRenderer]
    ELSE LET r == <<LocalKey, NextGen(W, LocalKey)>>
             W1 == constructor(W, LocalKey)
         IN IF W1.threw THEN W1
            ELSE [W1 EXCEPT !.localRenderer = r, !.ret = r]

getLocalRenderer(W) == W.localRenderer

\* createRemoteRenderer without the lookup of an existing renderer
createRemoteRendererAlways(W, spaceUserId) ==
    LET textureKey == RemoteKey(spaceUserId)
        r == <<textureKey, NextGen(W, textureKey)>>
        W1 == constructor(W, textureKey)
    IN IF W1.threw THEN W1
       ELSE [W1 EXCEPT !.renderers = (spaceUserId :> r) @@ W.renderers, !.ret = r]

\* createRemoteRenderer with the limit enforced
createRemoteRendererHardCap(W, spaceUserId) ==
    IF spaceUserId \in DOMAIN W.renderers
    THEN [W EXCEPT !.ret = W.renderers[spaceUserId]]
    ELSE IF Cardinality(DOMAIN W.renderers) >= MAX_CONCURRENT_VIDEO THEN W
    ELSE LET textureKey == RemoteKey(spaceUserId)
             r == <<textureKey, NextGen(W, textureKey)>>
             W1 == constructor(W, textureKey)
         IN IF W1.threw THEN W1
            ELSE [W1 EXCEPT !.renderers = (spaceUserId :> r) @@ W.renderers, !.ret = r]

\* the warning at MAX_CONCURRENT_VIDEO renderers is logged and changes nothing
createRemoteRenderer(W, spaceUserId) ==
    IF spaceUserId \in DOMAIN W.renderers
    THEN [W EXCEPT !.ret = W.renderers[spaceUserId]]
    ELSE LET textureKey == RemoteKey(spaceUserId)
             r == <<textureKey, NextGen(W, textureKey)>>
             W1 == constructor(W, textureKey)
         IN IF W1.threw THEN W1
            ELSE [W1 EXCEPT !.renderers = (spaceUserId :> r) @@ W.renderers, !.ret = r]

getRenderer(W, spaceUserId) ==
    IF spaceUserId \in DOMAIN W.renderers THEN W.renderers[spaceUserId] ELSE NoRef

getOrCreateRenderer(W, spaceUserId) ==
    IF spaceUserId \in DOMAIN W.renderers
    THEN [W EXCEPT !.ret = W.renderers[spaceUserId]]
    ELSE createRemoteRenderer(W, spaceUserId)

\* renderers.forEach((renderer) => renderer.update(time)) over the ids in todo
RECURSIVE updateEach(_, _, _)
updateEach(W, todo, time) ==
    IF todo = {} THEN W
    ELSE LET spaceUserId == CHOOSE x \in todo : TRUE
         IN updateEach(update(W, W.renderers[spaceUserId], time), todo \ {spaceUserId}, time)

managerUpdate(W, time) ==
    IF W.destroyed THEN W
    ELSE LET W1 == IF W.localRenderer # NoRef THEN update(W, W.localRenderer, time) ELSE W
         IN updateEach(W1, DOMAIN W1.renderers, time)

\* a removal that tears the local renderer down as well
removeRendererWithLocal(W, spaceUserId) ==
    IF spaceUserId \in DOMAIN W.renderers
    THEN LET W1 == destroy(W, W.renderers[spaceUserId])
             W2 == IF W1.localRenderer # NoRef THEN destroy(W1, W1.localRenderer) ELSE W1
         IN [W2 EXCEPT !.renderers = [x \in DOMAIN W2.renderers \ {spaceUserId}
                                        |-> W2.renderers[x]]]
    ELSE W

removeRenderer(W, spaceUserId) ==
    IF spaceUserId \in DOMAIN W.renderers
    THEN LET W1 == destroy(W, W.renderers[spaceUserId])
         IN [W1 EXCEPT !.renderers = [x \in DOMAIN W1.renderers \ {spaceUserId}
                                        |-> W1.renderers[x]]]
    ELSE W

RECURSIVE countActive(_, _, _)
countActive(W, todo, count) ==
    IF todo = {} THEN count
    ELSE LET spaceUserId == CHOOSE x \in todo : TRUE
         IN countActive(W, todo \ {spaceUserId},
                        IF isVideoActive(W, W.renderers[spaceUserId])
                        THEN count + 1 ELSE count)

\* the count without the local renderer
getActiveVideoCountRemoteOnly(W) == countActive(W, DOMAIN W.renderers, 0)

getActiveVideoCount(W) ==
    countActive(W, DOMAIN W.renderers,
                IF W.localRenderer # NoRef /\ isVideoActive(W, W.localRenderer)
                THEN 1 ELSE 0)

canAddVideoStream(W) == getActiveVideoCount(W) < MAX_CONCURRENT_VIDEO

\* renderers.forEach((renderer) => renderer.destroy()) over the ids in todo
RECURSIVE destroyEach(_, _)
destroyEach(W, todo) ==
    IF todo = {} THEN W
    ELSE LET spaceUserId == CHOOSE x \in todo : TRUE
         IN destroyEach(destroy(W, W.renderers[spaceUserId]), todo \ {spaceUserId})

managerDestroy(W) ==
    IF W.destroyed THEN W
    ELSE LET W1 == [W EXCEPT !.destroyed = TRUE]
             W2 == IF W1.localRenderer # NoRef THEN destroy(W1, W1.localRenderer) ELSE W1
             W3 == [W2 EXCEPT !.localRenderer = NoRef]
             W4 == destroyEach(W3, DOMAIN W3.renderers)
         IN [W4 EXCEPT !.renderers = <<>>]

-----------------------------------------------------------------------------
(* Actions *)

Apply(W, op, time) ==
    /\ instances' = W.instances
    /\ textures' = W.textures
    /\ renderers' = W.renderers
    /\ localRenderer' = W.localRenderer
    /\ destroyed' = W.destroyed
    /\ ret' = W.ret
    /\ threw' = W.threw
    /\ clock' = time
    /\ lastOp' = op

PendingLoads(W, r) == {n \in 1..Len(Inst(W, r).loads) : Inst(W, r).loads[n].state = "pending"}

CreateLocalRenderer == Apply(createLocalRenderer(World), "createLocalRenderer", clock)

SetStream(r, stream) ==
    LET W1 == setStream(World, r, stream)
        W2 == IF Inst(World, r).destroyed THEN W1
              ELSE SetInst(W1, r, [Inst(W1, r) EXCEPT !.lastStream = stream])
    IN Apply(W2, "setStream", clock)

\* play() of the last stream attached is rejected: while the stream is attached, or
\* after destroy() has detached it
PlayCatch(r) ==
    /\ Usable(Inst(World, r).lastStream)
    /\ Apply(playCatch(World, r), "playCatch", clock)

LoadedMetadata(r, size) ==
    /\ Usable(Inst(World, r).srcObject)
    /\ Inst(World, r).videoWidth = 0
    /\ Apply(loadedmetadata(World, r, size), "loadedmetadata", clock)

SetMaskImage(r, imageUrl) ==
    LET W1 == setMaskImage(World, r, imageUrl)
        W2 == IF Inst(World, r).destroyed THEN W1
              ELSE SetInst(W1, r, [Inst(W1, r) EXCEPT !.lastMask =
                        IF imageUrl = NoUrl THEN 0 ELSE Len(Inst(W1, r).loads)])
    IN Apply(W2, "setMaskImage", clock)

Onload(r, img) ==
    /\ img \in PendingLoads(World, r)
    /\ Apply(onload(World, r, img), "onload", clock)

Onerror(r, img) ==
    /\ img \in PendingLoads(World, r)
    /\ Apply(onerror(World, r, img), "onerror", clock)

Update(r, time) == Apply(update(World, r, time), "update", time)

Destroy(r) == Apply(destroy(World, r), "destroy", clock)

CreateRemoteRenderer(spaceUserId) ==
    Apply(createRemoteRenderer(World, spaceUserId), "createRemoteRenderer", clock)

GetOrCreateRenderer(spaceUserId) ==
    Apply(getOrCreateRenderer(World, spaceUserId), "getOrCreateRenderer", clock)

RemoveRenderer(spaceUserId) ==
    Apply(removeRenderer(World, spaceUserId), "removeRenderer", clock)

ManagerUpdate(time) == Apply(managerUpdate(World, time), "managerUpdate", time)

ManagerDestroy == Apply(managerDestroy(World), "managerDestroy", clock)

\* the timestamps of the scene never decrease
Times(deltas, max) == {t \in {clock + d : d \in deltas} : t <= max}

Init ==
    /\ instances = <<>>
    /\ textures = <<>>
    /\ renderers = <<>>
    /\ localRenderer = NoRef
    /\ destroyed = FALSE
    /\ ret = NoRef
    /\ threw = FALSE
    /\ clock = 0
    /\ lastOp = "constructor"

(* One renderer with its streams, mask loads and callbacks *)
Next ==
    \/ CreateLocalRenderer
    \/ \E r \in Refs(World), stream \in Streams : SetStream(r, stream)
    \/ \E r \in Refs(World) : PlayCatch(r)
    \/ \E r \in Refs(World), size \in VideoSizes : LoadedMetadata(r, size)
    \/ \E r \in Refs(World), imageUrl \in Urls \cup {NoUrl} :
            /\ imageUrl # NoUrl => Len(Inst(World, r).loads) < MaxLoads
            /\ SetMaskImage(r, imageUrl)
    \/ \E r \in Refs(World), img \in 1..MaxLoads : Onload(r, img)
    \/ \E r \in Refs(World), img \in 1..MaxLoads : Onerror(r, img)
    \/ \E r \in Refs(World), time \in Times({0, 10, 66}, MaxTime) : Update(r, time)
    \/ \E r \in Refs(World) : Destroy(r)

Spec == Init /\ [][Next]_vars

(* One renderer under a dense sequence of ticks *)
NextTick ==
    \/ CreateLocalRenderer
    \/ \E r \in Refs(World), stream \in {NoStream, 1} : SetStream(r, stream)
    \/ \E r \in Refs(World), size \in VideoSizes : LoadedMetadata(r, size)
    \/ \E r \in Refs(World), time \in Times({0, 10, 56, 66}, TickMaxTime) : Update(r, time)
    \/ \E r \in Refs(World) : Destroy(r)

SpecTick == Init /\ [][NextTick]_vars

(* The registry with its local and remote renderers; the image loads of a renderer
   are in Spec *)
CanConstruct == Cardinality(Refs(World)) < RegMaxInst

NextReg ==
    \/ (localRenderer # NoRef \/ CanConstruct) /\ CreateLocalRenderer
    \/ \E spaceUserId \in SpaceUserIds :
            /\ spaceUserId \in DOMAIN renderers \/ CanConstruct
            /\ CreateRemoteRenderer(spaceUserId)
    \/ \E spaceUserId \in SpaceUserIds :
            /\ spaceUserId \in DOMAIN renderers \/ CanConstruct
            /\ GetOrCreateRenderer(spaceUserId)
    \/ \E spaceUserId \in SpaceUserIds : RemoveRenderer(spaceUserId)
    \/ \E time \in Times({66}, MaxTime) : ManagerUpdate(time)
    \/ ManagerDestroy
    \/ \E r \in Refs(World), stream \in {NoStream, 1} : SetStream(r, stream)
    \/ \E r \in Refs(World) : SetMaskImage(r, NoUrl)
    \/ \E r \in Refs(World) : Destroy(r)

SpecReg == Init /\ [][NextReg]_vars

(* More renderers than MAX_CONCURRENT_VIDEO; the participants arrive in the order
   of their ids, which loses no case: the ids are interchangeable *)
NextCap ==
    \/ localRenderer = NoRef /\ CreateLocalRenderer
    \/ \E spaceUserId \in 1..CapUsers :
            /\ spaceUserId = Cardinality(DOMAIN renderers) + 1
            /\ GetOrCreateRenderer(spaceUserId)
    \/ \E r \in Refs(World), stream \in {NoStream, 1} : SetStream(r, stream)

SpecCap == Init /\ [][NextCap]_vars

(* One renderer in video mode with a ready source, under ticks 10 ms apart: the
   stream is attached and its dimensions known before the first tick, the first tick
   has a timestamp of StartTimes and every later one is 10 ms after the one before *)
NextSpan ==
    \/ localRenderer = NoRef /\ CreateLocalRenderer
    \/ \E r \in Refs(World) : ~Inst(World, r).isActive /\ SetStream(r, 1)
    \/ \E r \in Refs(World), size \in VideoSizes : LoadedMetadata(r, size)
    \/ \E r \in Refs(World),
          time \in Times(IF lastOp = "update" THEN {10} ELSE StartTimes, SpanMaxTime) :
            /\ Inst(World, r).isActive /\ Inst(World, r).videoWidth # 0
            /\ Update(r, time)

SpecSpan == Init /\ [][NextSpan]_vars

(* One renderer that draws the frames of a video of any width and height *)
NextCrop ==
    \/ localRenderer = NoRef /\ CreateLocalRenderer
    \/ \E r \in Refs(World) : ~Inst(World, r).isActive /\ SetStream(r, 1)
    \/ \E r \in Refs(World), size \in CropSizes : LoadedMetadata(r, size)
    \/ \E r \in Refs(World), time \in Times({66}, MaxTime) : Update(r, time)

SpecCrop == Init /\ [][NextCrop]_vars

(* One renderer that loads and draws a mask image of any width and height *)
NextFit ==
    \/ localRenderer = NoRef /\ CreateLocalRenderer
    \/ \E r \in Refs(World), imageUrl \in FitUrls :
            /\ Inst(World, r).loads = <<>>
            /\ SetMaskImage(r, imageUrl)
    \/ \E r \in Refs(World), img \in 1..MaxLoads : Onload(r, img)

SpecFit == Init /\ [][NextFit]_vars

-----------------------------------------------------------------------------
(* Claims *)

\* the fields of a renderer object (loads is the state of the browser's Image objects)
InstanceFields(i) == [i EXCEPT !.loads = <<>>]

Callbacks == {"onload", "onerror", "playCatch"}

\* C1: any two successive video redraws of a renderer have timestamps at least
\* frameInterval (66 ms) apart, however densely the ticks arrive
C1_RedrawsThrottled ==
    \A r \in Refs(World) :
        LET d == Inst(World, r).videoDraws
        IN \A n \in 1..(Len(d) - 1) : d[n + 1] - d[n] >= frameInterval

\* two video redraws have happened on one renderer, after a tick inside the window
C1_Witness ==
    \E r \in Refs(World) :
        /\ Len(Inst(World, r).videoDraws) >= 2
        /\ lastOp = "update"
        /\ clock - Inst(World, r).lastFrameTime \in 1..(frameInterval - 1)

\* C2: a callback (image load success, image load failure, playback-start failure)
\* that fires after destroy() changes no field of the renderer and draws nothing
C2_CallbacksAfterDestroyAreNoOps ==
    [][lastOp' \in Callbacks =>
        \A r \in Refs(World) :
            Inst(World, r).destroyed =>
                /\ InstanceFields(instances'[r[1]][r[2]]) = InstanceFields(Inst(World, r))
                /\ textures' = textures]_vars

\* C3: on a destroyed renderer every call of setStream, setMaskImage, update and
\* destroy, with any arguments, leaves everything unchanged (fields, textures, image
\* loads), raises nothing, and isVideoActive() is false
C3_DestroyedIsTerminal ==
    \A r \in Refs(World) :
        Inst(World, r).destroyed =>
            /\ ~isVideoActive(World, r)
            /\ \A stream \in Streams : setStream(World, r, stream) = World
            /\ \A imageUrl \in Urls \cup {NoUrl} : setMaskImage(World, r, imageUrl) = World
            /\ \A d \in {0, 10, 66, 1000} : update(World, r, clock + d) = World
            /\ destroy(World, r) = World

\* setStream has just been called on a destroyed renderer that was showing video
\* and has an image load in flight
C3_Witness ==
    \E r \in Refs(World) :
        /\ Inst(World, r).destroyed
        /\ lastOp = "setStream"
        /\ Inst(World, r).videoDraws # <<>>
        /\ PendingLoads(World, r) # {}

\* C4: destroy() is idempotent: a second destroy() changes nothing after the first,
\* the output texture is removed at most once, and neither call throws
C4_DestroyIdempotent ==
    \A r \in Refs(World) :
        LET W1 == destroy(World, r)
            W2 == destroy(W1, r)
        IN /\ W2 = W1
           /\ Inst(W2, r).textureDestroys <= 1
           /\ ~W1.threw /\ ~W2.threw
           /\ Inst(W1, r).destroyed

\* destroy() has just been called on a renderer whose texture is already removed
C4_Witness ==
    \E r \in Refs(World) :
        /\ lastOp = "destroy"
        /\ Inst(World, r).destroyed
        /\ Inst(World, r).textureDestroys = 1
        /\ Inst(World, r).textureKey \notin DOMAIN textures

\* the renderers the registry owns: the local one and those of the remote mapping
Owned(W) ==
    (IF W.localRenderer # NoRef THEN {W.localRenderer} ELSE {})
        \cup {W.renderers[x] : x \in DOMAIN W.renderers}

ActiveOwned(W) == {r \in Owned(W) : Inst(W, r).isActive}

\* C5: getActiveVideoCount() is the number of renderers the registry owns (local and
\* remote) whose isVideoActive() is true
C5_ActiveCountIsOwnedActive == getActiveVideoCount(World) = Cardinality(ActiveOwned(World))

\* the local renderer and a remote one are active, another owned one is not, and a
\* renderer that was active has been removed
C5_Witness ==
    /\ localRenderer # NoRef /\ Inst(World, localRenderer).isActive
    /\ getActiveVideoCount(World) = 2
    /\ Cardinality(Owned(World)) = 2
    /\ \E r \in Refs(World) \ Owned(World) : Usable(Inst(World, r).lastStream)

\* C6: the cap is soft: getOrCreateRenderer of a new id constructs and returns a
\* renderer, setStream with a usable stream enters video mode, whatever the number of
\* renderers and of active videos; canAddVideoStream() is false exactly when the
\* active count is at least 8
C6_SoftCap ==
    /\ \A spaceUserId \in (1..(CapUsers + 1)) \ DOMAIN renderers :
            LET W1 == getOrCreateRenderer(World, spaceUserId)
            IN /\ ~W1.threw
               /\ W1.ret # NoRef /\ W1.ret \notin Refs(World) /\ W1.ret \in Refs(W1)
               /\ spaceUserId \in DOMAIN W1.renderers
               /\ W1.renderers[spaceUserId] = W1.ret
               /\ ~Inst(W1, W1.ret).destroyed
    /\ \A r \in Refs(World) :
            ~Inst(World, r).destroyed => isVideoActive(setStream(World, r, 1), r)
    /\ canAddVideoStream(World) <=> ~(Cardinality(ActiveOwned(World)) >= 8)

\* nine renderers are active, the ninth remote one created and attached past the cap
C6_Witness ==
    /\ Cardinality(ActiveOwned(World)) = 9
    /\ Cardinality(DOMAIN renderers) >= 8
    /\ ~canAddVideoStream(World)
    /\ lastOp = "setStream"

\* C7: get-or-create is idempotent: for an id of the remote mapping
\* getOrCreateRenderer and createRemoteRenderer return the mapped renderer and change
\* nothing, and createLocalRenderer returns the local renderer when there is one; the
\* local renderer is not in the remote mapping, no renderer is mapped to two ids, the
\* renderer of an id carries the key of that id, and at most one renderer that is not
\* destroyed exists per texture key
C7_GetOrCreateIdempotent ==
    /\ \A spaceUserId \in DOMAIN renderers :
            /\ getOrCreateRenderer(World, spaceUserId)
                    = [World EXCEPT !.ret = renderers[spaceUserId]]
            /\ createRemoteRenderer(World, spaceUserId)
                    = [World EXCEPT !.ret = renderers[spaceUserId]]
            /\ renderers[spaceUserId] \in Refs(World)
            /\ renderers[spaceUserId] # localRenderer
            /\ renderers[spaceUserId][1] = RemoteKey(spaceUserId)
            /\ \A other \in DOMAIN renderers :
                    renderers[other] = renderers[spaceUserId] => other = spaceUserId
    /\ localRenderer # NoRef =>
            /\ createLocalRenderer(World) = [World EXCEPT !.ret = localRenderer]
            /\ localRenderer \in Refs(World)
            /\ localRenderer[1] = LocalKey
    /\ \A k \in DOMAIN instances :
            Cardinality({g \in 1..Len(instances[k]) : ~instances[k][g].destroyed}) <= 1
    /\ lastOp \in {"getOrCreateRenderer", "createRemoteRenderer", "createLocalRenderer"}
            => ret \in Owned(World)

\* getOrCreateRenderer has just returned a renderer that was already in use, under a
\* key an earlier, removed renderer had
C7_Witness ==
    /\ lastOp = "getOrCreateRenderer"
    /\ ret # NoRef /\ ret[2] = 2
    /\ Inst(World, ret).isActive
    /\ localRenderer # NoRef

\* C8: on a renderer that is not destroyed, setStream without a stream, or with a
\* stream without video track, leaves the output texture showing the cached mask image
\* if there is one and the placeholder otherwise, within the call
C8_DetachRedrawsAtOnce ==
    \A r \in Refs(World) :
        ~Inst(World, r).destroyed =>
            \A stream \in {NoStream, 0} :
                LET i == Inst(World, r)
                    W1 == setStream(World, r, stream)
                    out == W1.textures[i.textureKey].pixels
                IN /\ ~isVideoActive(W1, r)
                   /\ out = IF i.currentMaskImage # 0
                            THEN MaskPixels(i.currentMaskImage,
                                            i.loads[i.currentMaskImage].url)
                            ELSE Placeholder

\* setStream has just detached the stream of a renderer that had drawn video and has
\* a cached mask: the texture shows the mask, with no tick
C8_Witness ==
    \E r \in Refs(World) :
        /\ lastOp = "setStream"
        /\ ~Inst(World, r).destroyed /\ ~Inst(World, r).isActive
        /\ Inst(World, r).videoDraws # <<>>
        /\ Inst(World, r).currentMaskImage # 0
        /\ textures[r[1]].pixels.kind = "mask"

\* C9: isVideoActive() is true iff the renderer is not destroyed and the last
\* setStream call made while it was not destroyed carried a stream with a video track;
\* setMaskImage, the load callbacks, update and a playback-start failure leave it alone
C9_ActiveIffLastStreamUsable ==
    \A r \in Refs(World) :
        isVideoActive(World, r) <=>
            /\ ~Inst(World, r).destroyed
            /\ Usable(Inst(World, r).lastStream)

\* a playback-start failure has just been reported to a renderer in video mode that
\* has completed a mask load and drawn a frame
C9_Witness ==
    \E r \in Refs(World) :
        /\ lastOp = "playCatch"
        /\ isVideoActive(World, r)
        /\ Inst(World, r).currentMaskImage # 0
        /\ Inst(World, r).videoDraws # <<>>

\* C10: isMaskLoading() is true iff an image load started by setMaskImage has not yet
\* reported success or failure
C10_MaskLoadingIffLoadInFlight ==
    \A r \in Refs(World) : isMaskLoading(World, r) <=> PendingLoads(World, r) # {}

\* C11: when an image load fails on a renderer that is not destroyed, no mask image
\* is cached afterwards (not even one an earlier load cached) and, outside video mode,
\* the output texture shows the placeholder
C11_FailedLoadLeavesNoMask ==
    \A r \in Refs(World) :
        ~Inst(World, r).destroyed =>
            \A img \in PendingLoads(World, r) :
                LET W1 == onerror(World, r, img)
                IN /\ Inst(W1, r).currentMaskImage = 0
                   /\ ~isVideoActive(W1, r) =>
                        W1.textures[r[1]].pixels = Placeholder

\* C12: destroy() of the registry is idempotent and total: after it every renderer
\* the registry owned at the call (local and remote) is destroyed, the remote mapping
\* is empty, getLocalRenderer() is absent and the registry is marked destroyed; a
\* second destroy() changes nothing
C12_DestroyAllIdempotentAndTotal ==
    LET W1 == managerDestroy(World)
        W2 == managerDestroy(W1)
    IN /\ \A r \in Owned(World) : Inst(W1, r).destroyed
       /\ DOMAIN W1.renderers = {}
       /\ getLocalRenderer(W1) = NoRef
       /\ W1.destroyed
       /\ ~W1.threw
       /\ W2 = W1

\* C13: once the registry is destroyed every registry operation is a no-op:
\* createLocalRenderer, createRemoteRenderer, getOrCreateRenderer, removeRenderer and
\* update construct no renderer, leave the remote mapping empty and the local renderer
\* absent and update nothing, so the registry owns no renderer that is not destroyed
C13_DestroyedRegistryIsQuiescent ==
    destroyed =>
        /\ DOMAIN renderers = {} /\ localRenderer = NoRef
        /\ \A r \in Owned(World) : Inst(World, r).destroyed
        /\ LET Same(W1) == /\ W1.instances = instances /\ W1.textures = textures
                           /\ W1.renderers = renderers
                           /\ W1.localRenderer = localRenderer
                           /\ W1.destroyed /\ ~W1.threw
           IN /\ Same(createLocalRenderer(World))
              /\ \A spaceUserId \in SpaceUserIds :
                    /\ Same(createRemoteRenderer(World, spaceUserId))
                    /\ Same(getOrCreateRenderer(World, spaceUserId))
                    /\ Same(removeRenderer(World, spaceUserId))
              /\ Same(managerUpdate(World, clock + frameInterval))

\* C14: removeRenderer(id) destroys and evicts exactly the renderer mapped to id:
\* afterwards getRenderer(id) is absent and that renderer is destroyed, the local
\* renderer and every other renderer keep their identity, fields and output texture;
\* for an id that is not mapped the call changes nothing
C14_RemoveTouchesOnlyItsRenderer ==
    \A spaceUserId \in SpaceUserIds :
        LET W1 == removeRenderer(World, spaceUserId) IN
        IF spaceUserId \in DOMAIN renderers
        THEN LET r == renderers[spaceUserId] IN
             /\ getRenderer(W1, spaceUserId) = NoRef
             /\ Inst(W1, r).destroyed
             /\ ~W1.threw
             /\ W1.localRenderer = localRenderer
             /\ W1.destroyed = destroyed
             /\ DOMAIN W1.renderers = DOMAIN renderers \ {spaceUserId}
             /\ \A other \in DOMAIN W1.renderers : W1.renderers[other] = renderers[other]
             /\ Refs(W1) = Refs(World)
             /\ \A o \in Refs(World) \ {r} : Inst(W1, o) = Inst(World, o)
             /\ \A k \in DOMAIN textures \ {r[1]} :
                    k \in DOMAIN W1.textures /\ W1.textures[k] = textures[k]
             /\ r[1] \notin DOMAIN W1.textures
        ELSE W1 = World

\* removeRenderer has just evicted a renderer that was showing video, while the local
\* renderer and the other remote one are in video mode
C14_Witness ==
    /\ lastOp = "removeRenderer"
    /\ localRenderer # NoRef /\ Cardinality(DOMAIN renderers) = 1
    /\ \A o \in Owned(World) : Inst(World, o).isActive /\ o[1] \in DOMAIN textures
    /\ \E r \in Refs(World) \ Owned(World) :
            /\ Inst(World, r).destroyed
            /\ Usable(Inst(World, r).lastStream)
            /\ r[1] \notin DOMAIN textures

\* C15: while a renderer is in video mode, setMaskImage (with a url or with null) and
\* the success or failure callback of an image load leave the output texture and the
\* mode unchanged; in video mode an update that writes the texture writes a video
\* frame, also when a mask is cached
C15_MaskNeverDrawnInVideoMode ==
    \A r \in Refs(World) :
        isVideoActive(World, r) =>
            /\ \A imageUrl \in Urls \cup {NoUrl} :
                    LET W1 == setMaskImage(World, r, imageUrl)
                    IN W1.textures = textures /\ isVideoActive(W1, r)
            /\ \A img \in PendingLoads(World, r) :
                    /\ onload(World, r, img).textures = textures
                    /\ isVideoActive(onload(World, r, img), r)
                    /\ onerror(World, r, img).textures = textures
                    /\ isVideoActive(onerror(World, r, img), r)
            /\ \A d \in {0, 10, 66} :
                    LET W1 == update(World, r, clock + d)
                    IN W1.textures # textures => W1.textures[r[1]].pixels.kind = "video"

\* an image load has just succeeded on a renderer in video mode: the mask is cached
\* and the texture still shows the video frame drawn before
C15_Witness ==
    \E r \in Refs(World) :
        /\ lastOp = "onload"
        /\ isVideoActive(World, r)
        /\ Inst(World, r).currentMaskImage # 0
        /\ textures[r[1]].pixels.kind = "video"

\* the number of video redraws of a renderer with a timestamp in lo..hi
RedrawsIn(r, lo, hi) ==
    LET d == Inst(World, r).videoDraws
    IN Cardinality({n \in 1..Len(d) : lo <= d[n] /\ d[n] <= hi})

\* a span of 200 ms of ticks 10 ms apart ends with the tick just made (in SpecSpan
\* every tick is 10 ms after the one before, from the first tick on)
SpanEndsHere == lastOp = "update" /\ clock >= 200

\* C16: a renderer in video mode with a ready source that receives ticks 10 ms apart
\* over a span of 200 ms redraws the video 3 or 4 times in that span
C16_ThreeOrFourRedrawsPerSpan ==
    SpanEndsHere =>
        \A r \in Refs(World) : RedrawsIn(r, clock - 200, clock) \in {3, 4}

\* C16 as the code has it: the redraws of such a span are 2 or 3, never one per tick,
\* whether the span is counted with both end ticks (21 ticks) or without the last
\* (20 ticks)
C16_TwoOrThreeRedrawsPerSpan ==
    SpanEndsHere =>
        \A r \in Refs(World) :
            /\ RedrawsIn(r, clock - 200, clock) \in {2, 3}
            /\ RedrawsIn(r, clock - 200, clock - 10) \in {2, 3}

\* the 21st tick of a span that began with the first tick at timestamp 0 has been
\* made: the span holds two redraws
C16_Witness ==
    /\ SpanEndsHere /\ clock = 200
    /\ \E r \in Refs(World) :
            /\ Len(Inst(World, r).videoDraws) = 2
            /\ RedrawsIn(r, 0, 200) = 2

\* C17: lastFrameTime is the timestamp of the last video redraw and never decreases:
\* it changes only in an update call that redraws the video (not on a destroyed
\* renderer, outside video mode, inside the throttle window, or with a source of zero
\* width or height), and then to a value not smaller than before
C17_LastFrameTimeIsLastRedraw ==
    [][\A r \in Refs(World) :
            LET old == Inst(World, r)
                new == instances'[r[1]][r[2]]
            IN new.lastFrameTime # old.lastFrameTime =>
                /\ lastOp' = "update"
                /\ new.videoDraws = Append(old.videoDraws, new.lastFrameTime)
                /\ new.lastFrameTime >= old.lastFrameTime]_vars

\* C18: every renderer owns its output texture alone: no two renderers that are not
\* destroyed have the same texture key, the texture under the key of a renderer that
\* is not destroyed is the one it created, and destroy() of a renderer (also a
\* repeated destroy of one whose key a later renderer reuses) neither removes nor
\* writes the texture of another renderer, nor changes that renderer
C18_TextureOwnedAlone ==
    /\ \A r, o \in Refs(World) :
            /\ ~Inst(World, r).destroyed /\ ~Inst(World, o).destroyed
            /\ getTextureKey(World, r) = getTextureKey(World, o)
            => r = o
    /\ \A r \in Refs(World) :
            ~Inst(World, r).destroyed =>
                /\ getTextureKey(World, r) \in DOMAIN textures
                /\ textures[getTextureKey(World, r)].obj = Inst(World, r).canvasTexture
    /\ \A r \in Refs(World) :
            LET W1 == destroy(World, r)
            IN \A o \in Refs(World) \ {r} :
                    /\ Inst(W1, o) = Inst(World, o)
                    /\ ~Inst(World, o).destroyed =>
                            /\ o[1] \in DOMAIN W1.textures
                            /\ W1.textures[o[1]] = textures[o[1]]

\* destroy() has just been called again on a renderer that removeRenderer had
\* destroyed and whose key a later renderer, alive with its texture, reuses
C18_Witness ==
    /\ lastOp = "destroy"
    /\ \E k \in DOMAIN instances :
            /\ Len(instances[k]) = 2
            /\ instances[k][1].destroyed /\ ~instances[k][2].destroyed
            /\ k \in DOMAIN textures /\ textures[k].obj = 2
            /\ \A o \in Refs(World) \ {<<k, 1>>} : ~Inst(World, o).destroyed

\* C19: for every source of positive width Sw and height Sh, the rectangle of the
\* source that drawVideoFrame draws into the 32x32 texture is centred, lies inside
\* the source and is square: if Sw > Sh then sw = Sh, sx = (Sw - Sh)/2, sy = 0,
\* sh = Sh, otherwise sh = Sw, sy = (Sh - Sw)/2, sx = 0, sw = Sw; for a 16:9 source
\* the visible width is the source height and the height is unchanged
C19_CropIsCentredSquare ==
    \A r \in Refs(World) :
        LET Sw == Inst(World, r).videoWidth
            Sh == Inst(World, r).videoHeight
            out == drawVideoFrame(World, r).textures[r[1]].pixels
            c == out.rect
        IN Sw > 0 /\ Sh > 0 =>
            /\ out.kind = "video"
            /\ IF Sw > Sh
               THEN /\ c.w = Sh * c.den /\ 2 * c.x = (Sw - Sh) * c.den
                    /\ c.y = 0 /\ c.h = Sh * c.den
               ELSE /\ c.h = Sw * c.den /\ 2 * c.y = (Sh - Sw) * c.den
                    /\ c.x = 0 /\ c.w = Sw * c.den
            /\ c.x >= 0 /\ c.y >= 0
            /\ c.x + c.w <= Sw * c.den /\ c.y + c.h <= Sh * c.den
            /\ 2 * c.x + c.w = Sw * c.den /\ 2 * c.y + c.h = Sh * c.den
            /\ c.w * SPRITE_HEIGHT = c.h * SPRITE_WIDTH
            /\ Sw * 9 = Sh * 16 => c.w = Sh * c.den /\ c.h = Sh * c.den

\* update has just drawn a frame of a 16x9 source: the texture shows the columns
\* 3.5 to 12.5 of the source
C19_Witness ==
    \E r \in Refs(World) :
        /\ lastOp = "update"
        /\ Inst(World, r).videoWidth = 16 /\ Inst(World, r).videoHeight = 9
        /\ textures[r[1]].pixels.kind = "video"
        /\ 2 * textures[r[1]].pixels.rect.x = 7 * textures[r[1]].pixels.rect.den
        /\ textures[r[1]].pixels.rect.w = 9 * textures[r[1]].pixels.rect.den

\* the cached image of a renderer has the aspect 9:16
CachedIs9x16(r) ==
    /\ ~Inst(World, r).destroyed
    /\ Inst(World, r).currentMaskImage # 0
    /\ LET size == ImageSize(Inst(World, r).loads[Inst(World, r).currentMaskImage].url)
       IN size[1] * 16 = size[2] * 9

\* C20: a mask image of aspect 9:16 is drawn over the full width of the 32x32
\* destination, centred vertically, with equal bands of the background fill above and
\* below it
C20_Portrait9x16FillsWidth ==
    \A r \in Refs(World) :
        CachedIs9x16(r) =>
            LET out == drawMaskToCanvas(World, r).textures[r[1]].pixels
                d == out.rect
            IN /\ out.kind = "mask" /\ out.fill = "#333333"
               /\ d.x = 0 /\ d.w = SPRITE_WIDTH * d.den
               /\ d.y > 0 /\ 2 * d.y + d.h = SPRITE_HEIGHT * d.den

\* C20 as the code has it: a mask image is drawn whole, undistorted and centred, as
\* large as the destination allows, over the fill #333333; an image of aspect 9:16 is
\* drawn over the full height (32) and 18 wide, centred horizontally, with equal
\* bands of the fill, 7 wide, left and right of it
C20_Portrait9x16FillsHeight ==
    \A r \in Refs(World) :
        ~Inst(World, r).destroyed /\ Inst(World, r).currentMaskImage # 0 =>
            LET size == ImageSize(Inst(World, r).loads[Inst(World, r).currentMaskImage].url)
                out == drawMaskToCanvas(World, r).textures[r[1]].pixels
                d == out.rect
            IN /\ out.kind = "mask" /\ out.fill = "#333333"
               /\ d.x >= 0 /\ d.y >= 0
               /\ 2 * d.x + d.w = SPRITE_WIDTH * d.den
               /\ 2 * d.y + d.h = SPRITE_HEIGHT * d.den
               /\ d.w * size[2] = d.h * size[1]
               /\ d.x = 0 \/ d.y = 0
               /\ CachedIs9x16(r) =>
                    /\ d.y = 0 /\ d.h = SPRITE_HEIGHT * d.den
                    /\ d.w = 18 * d.den /\ d.x = 7 * d.den

\* the load of an image of 9x16 has just succeeded on a renderer outside video mode:
\* the texture shows the mask 18 wide between two bands
C20_Witness ==
    \E r \in Refs(World) :
        /\ lastOp = "onload"
        /\ CachedIs9x16(r)
        /\ ImageSize(Inst(World, r).loads[1].url) = <<9, 16>>
        /\ textures[r[1]].pixels.kind = "mask"
        /\ textures[r[1]].pixels.rect.x = 7 * textures[r[1]].pixels.rect.den

\* C21: in every reachable state, the output texture of a renderer that is neither
\* destroyed nor in video mode shows the cached mask image, as drawMaskToCanvas draws
\* it, if one is cached, and the placeholder if none is cached
C21_OutputMatchesCachedMask ==
    \A r \in Refs(World) :
        LET i == Inst(World, r) IN
        ~i.destroyed /\ ~isVideoActive(World, r) =>
            /\ getTextureKey(World, r) \in DOMAIN textures
            /\ textures[getTextureKey(World, r)].pixels =
                    IF i.currentMaskImage # 0
                    THEN MaskPixels(i.currentMaskImage, i.loads[i.currentMaskImage].url)
                    ELSE Placeholder

\* C22: the last setMaskImage call wins: on a renderer that is not destroyed, once
\* every image load started has completed, the cached mask is the image of the last
\* call if its load succeeded and none if the last call was setMaskImage(null); and
\* the success of an older load never replaces the result of a newer call (a newer
\* image already cached, or the cache cleared by a newer setMaskImage(null))
C22_LastMaskRequestWins ==
    \A r \in Refs(World) :
        LET i == Inst(World, r) IN
        ~i.destroyed =>
            /\ PendingLoads(World, r) = {} =>
                    IF i.lastMask = 0 THEN i.currentMaskImage = 0
                    ELSE i.loads[i.lastMask].state = "loaded" =>
                            i.currentMaskImage = i.lastMask
            /\ \A img \in PendingLoads(World, r) :
                    i.currentMaskImage > img \/ i.lastMask = 0 =>
                        Inst(onload(World, r, img), r).currentMaskImage = i.currentMaskImage

====
